---- MODULE Spec2Model ----
(***************************************************************************)
(* Model of the GPU resource arena (Context), the device session (Worker)  *)
(* and its buffer I/O and View life cycle, from                            *)
(* crates/custom-engine-core/src/{context,worker,buffer,render_pass}.rs.   *)
(***************************************************************************)
EXTENDS Integers, Sequences, FiniteSets, TLC

(***************************************************************************)
(* Bounds of the model.                                                    *)
(***************************************************************************)
MaxKinds == 2       \* resource kinds exercised (of the 12 kinds of Context)
MaxId == 1          \* resource ids are drawn from 0..MaxId
MaxData == 1        \* resource payloads are drawn from 0..MaxData
MaxHeld == 2        \* builders handed out by create_<kind>_id and not yet added
MaxDraws == 2       \* random candidates one generate_unique_id call may draw
MaxBuffers == 1     \* device buffers that may be built
MaxCap == 3         \* BufferBuilder::size is drawn from 0..MaxCap (bytes)
MaxLen == 1         \* typed data slices hold at most MaxLen elements
OffsetBits == 3     \* width of the u64 byte offset, scaled down
MaxViews == 3       \* View instances acquired in one run
MaxDim == 2         \* window widths and heights are drawn from 0..MaxDim
MaxStageKey == 1    \* stage keys of a RenderPass are drawn from 0..MaxStageKey
MaxStages == 2      \* stages of a RenderPass handed over ready-made
MaxMeshes == 2      \* meshes of one Model
MaxMaterials == 2   \* materials of one Model
MaxInserts == 2     \* stages inserted under one key of a RenderPass
MaxCoord == 2       \* x and y of a point are drawn from 0..MaxCoord
MaxHeight == 1      \* z of a point is drawn from 0..MaxHeight

(***************************************************************************)
(* Resource kinds: one HashMap field of Context per kind; each kind is     *)
(* identified here by the name its NotFound error carries.                 *)
(***************************************************************************)
KindNames ==
    << "Buffer", "Uniforms", "Storages", "Model", "BindGroupLayout",
       "BindGroup", "PipelineLayout", "Pipeline", "Shader",
       "Render Texture", "Depth Texture", "Process Texture" >>

Kinds == { KindNames[i] : i \in 1..(IF MaxKinds < Len(KindNames) THEN MaxKinds ELSE Len(KindNames)) }

IdSpace == 0..MaxId

\* A resource value: its public id field and the rest of its content.
Resources == [id : IdSpace, data : 0..MaxData]

(***************************************************************************)
(* Results of calls.                                                       *)
(***************************************************************************)
Unit == [tag |-> "Unit"]

Ok(v) == [tag |-> "Ok", val |-> v]

ContextFieldIsNotExist(name, id) ==
    [tag |-> "Err", err |-> "ContextFieldIsNotExist", name |-> name, id |-> id]

Err(e) == [tag |-> "Err", err |-> e]

(***************************************************************************)
(* Context: maps[k] is the HashMap of kind k (a function whose domain is   *)
(* the set of registered ids), ids is the global HashSet.                  *)
(***************************************************************************)
EmptyMap == [x \in {} |-> 0]

MapInsert(m, id, r) == [x \in (DOMAIN m) \cup {id} |-> IF x = id THEN r ELSE m[x]]

MapRemove(m, id) == [x \in (DOMAIN m) \ {id} |-> m[x]]

Context_new == [maps |-> [k \in Kinds |-> EmptyMap], ids |-> {}]

\* generate_unique_id: draws holds the successive values of rng.gen(); a
\* drawn value found in ids is dropped and the next one is tried.  The result
\* carries the number of values drawn; no result while every draw collided.
RECURSIVE generate_loop(_, _, _)
generate_loop(ids, draws, n) ==
    IF draws = << >> THEN [tag |-> "Looping"]
    ELSE IF Head(draws) \in ids THEN generate_loop(ids, Tail(draws), n + 1)
    ELSE [tag |-> "Id", val |-> Head(draws), drawn |-> n + 1]

generate_unique_id_unchecked(ctx, draws) ==
    [tag |-> "Id", val |-> Head(draws), drawn |-> 1]

generate_unique_id(ctx, draws) == generate_loop(ctx.ids, draws, 0)

\* add_<kind>(r)
add_shared(ctx, k, r) ==
    IF r.id \in DOMAIN ctx.maps[k]
    THEN ctx
    ELSE [maps |-> [j \in DOMAIN ctx.maps |-> MapInsert(ctx.maps[j], r.id, r)],
          ids |-> ctx.ids \cup {r.id}]

add_overwrite(ctx, k, r) ==
    [maps |-> [ctx.maps EXCEPT ![k] = MapInsert(@, r.id, r)],
     ids |-> ctx.ids \cup {r.id}]

add(ctx, k, r) ==
    IF r.id \in DOMAIN ctx.maps[k]
    THEN ctx
    ELSE [maps |-> [ctx.maps EXCEPT ![k] = MapInsert(@, r.id, r)],
          ids |-> ctx.ids \cup {r.id}]

\* replace_<kind>(id, r): always returns Ok(())
replace_upsert(ctx, k, id, r) ==
    [ctx EXCEPT !.maps[k] = MapInsert(@, id, [r EXCEPT !.id = id])]

replace(ctx, k, id, r) ==
    IF id \in DOMAIN ctx.maps[k]
    THEN [ctx EXCEPT !.maps[k] = MapInsert(@, id, [r EXCEPT !.id = id])]
    ELSE ctx

\* get_<kind>(id), get_<kind>_mut(id), get_<kind>_ref(id)
get(ctx, k, id) ==
    IF id \in DOMAIN ctx.maps[k]
    THEN Ok(ctx.maps[k][id])
    ELSE ContextFieldIsNotExist(k, id)

get_mut(ctx, k, id) ==
    IF id \in DOMAIN ctx.maps[k]
    THEN Ok(ctx.maps[k][id])
    ELSE ContextFieldIsNotExist(k, id)

get_ref(ctx, k, id) ==
    IF id \in DOMAIN ctx.maps[k]
    THEN Ok(ctx.maps[k][id])
    ELSE ContextFieldIsNotExist(k, id)

\* take_<kind>(id): the arena afterwards and the call's result
take_release(ctx, k, id) ==
    [ctx |-> [maps |-> [ctx.maps EXCEPT ![k] = MapRemove(@, id)],
              ids |-> ctx.ids \ {id}],
     ret |-> IF id \in DOMAIN ctx.maps[k]
             THEN Ok(ctx.maps[k][id])
             ELSE ContextFieldIsNotExist(k, id)]

take_keep(ctx, k, id) ==
    [ctx |-> ctx,
     ret |-> IF id \in DOMAIN ctx.maps[k]
             THEN Ok(ctx.maps[k][id])
             ELSE ContextFieldIsNotExist(k, id)]

take(ctx, k, id) ==
    [ctx |-> [ctx EXCEPT !.maps[k] = MapRemove(@, id)],
     ret |-> IF id \in DOMAIN ctx.maps[k]
             THEN Ok(ctx.maps[k][id])
             ELSE ContextFieldIsNotExist(k, id)]

(***************************************************************************)
(* Buffers: a Buffer resource is its id and (in its data field) the handle *)
(* of its inner wgpu::Buffer; mem[h] is the content of device buffer h and *)
(* Len(mem[h]) its fixed capacity.  Typed data is a slice of u16 elements. *)
(***************************************************************************)
ElemSize == 2

ByteRange == 256

ElemValues == {1, 258}

U64Modulus == 2 ^ OffsetBits

Offsets == 0..(U64Modulus - 1)

Datas == UNION { [1..n -> ElemValues] : n \in 0..MaxLen }

Handles == 0..(MaxBuffers - 1)

Panic(e) == [tag |-> "Panic", err |-> e]

size_of_val(data) == Len(data) * ElemSize

Zeros(n) == [i \in 1..n |-> 0]

\* bytemuck::cast_slice::<T, u8>: little-endian bytes of each element
RECURSIVE cast_slice_to_bytes(_)
cast_slice_to_bytes(data) ==
    IF data = << >> THEN << >>
    ELSE << Head(data) % ByteRange, Head(data) \div ByteRange >>
             \o cast_slice_to_bytes(Tail(data))

\* bytemuck::cast_slice::<u8, T>: panics unless the byte length is a
\* multiple of the element size
RECURSIVE elems_of_bytes(_)
elems_of_bytes(bytes) ==
    IF Len(bytes) < ElemSize THEN << >>
    ELSE << bytes[1] + ByteRange * bytes[2] >> \o elems_of_bytes(SubSeq(bytes, ElemSize + 1, Len(bytes)))

cast_slice_from_bytes(bytes) ==
    IF Len(bytes) % ElemSize # 0
    THEN Panic("cast_slice")
    ELSE Ok(elems_of_bytes(bytes))

\* BufferBuilder::build: the initial content of the inner buffer
BufferBuilder_build(data, size) ==
    IF data.tag = "Some"
    THEN LET contents == cast_slice_to_bytes(data.val) IN
         IF size # 0
         THEN [i \in 1..size |-> IF i <= Len(contents) THEN contents[i] ELSE 0]
         ELSE contents
    ELSE Zeros(size)

\* Buffer::size(): capacity of the inner buffer
Buffer_size(m, b) == Len(m[b.data])

\* Queue::write_buffer as called by update_buffer_data: the device stores the
\* bytes when they lie inside the buffer and rejects the write otherwise.
queue_write_buffer(m, b, offset, bytes) ==
    IF offset + Len(bytes) <= Len(m[b.data])
    THEN [mem |-> [m EXCEPT ![b.data] =
                      [i \in 1..Len(@) |->
                          IF i > offset /\ i <= offset + Len(bytes)
                          THEN bytes[i - offset] ELSE @[i]]],
          ret |-> Unit]
    ELSE [mem |-> m, ret |-> Panic("device validation")]

\* Worker::update_buffer_data.  The sum is a u64 addition: when it exceeds the
\* width it panics in a build with overflow checks and wraps in one without.
update_buffer_data(m, b, offset, data, overflow_checks) ==
    LET buffer_size == Buffer_size(m, b)
        sum == size_of_val(data) + offset
        data_len == sum % U64Modulus
    IN  IF sum >= U64Modulus /\ overflow_checks
        THEN [mem |-> m, ret |-> Panic("add overflow")]
        ELSE IF data_len > buffer_size
             THEN [mem |-> m, ret |-> Err("WrongBufferSize")]
             ELSE queue_write_buffer(m, b, offset, cast_slice_to_bytes(data))

\* Buffer::read_buffer_async: map_result is what the map callback sent on the
\* channel ("Ok", "BufferAsyncError"), or "Dropped" when it was dropped unsent;
\* on success Buffer::read_buffer copies the whole mapped range.
read_buffer_async_stale(m, b, map_result) ==
    IF map_result = "Dropped" THEN Err("FlumeRecvError")
    ELSE IF map_result = "BufferAsyncError" THEN Err("BufferAsyncError")
    ELSE Ok(Zeros(Len(m[b.data])))

read_buffer_async(m, b, map_result) ==
    IF map_result = "Dropped" THEN Err("FlumeRecvError")
    ELSE IF map_result = "BufferAsyncError" THEN Err("BufferAsyncError")
    ELSE Ok(m[b.data])

MapResults == {"Ok", "BufferAsyncError", "Dropped"}

\* Worker::read_buffer after the arena lookup
read_buffer(m, b, map_result) ==
    LET buffer_data == read_buffer_async(m, b, map_result) IN
    IF buffer_data.tag # "Ok" THEN buffer_data
    ELSE cast_slice_from_bytes(buffer_data.val)

(***************************************************************************)
(* The View and the stage graph.  A View is None, the surface's current    *)
(* frame, or an offscreen texture with its readback buffer (of cap bytes); *)
(* inst numbers the acquired instances.                                    *)
(***************************************************************************)
BytesPerPixel == 4

NoView == [tag |-> "None"]

ViewSurface(inst) == [tag |-> "Surface", inst |-> inst]

ViewTexture(inst, cap) == [tag |-> "Texture", inst |-> inst, cap |-> cap]

\* Option<T>: None, or Some(x) holding x
None == << >>

Some(x) == << x >>

\* Handles naming the wgpu objects a command refers to.
StageVertexBuffer == 1

StageIndexBuffer == 2

StageBindGroup == 3

MeshVertexBuffer(k) == 10 * k + 1

MeshIndexBuffer(k) == 10 * k + 2

MaterialBindGroup(j) == 100 + j

\* IndexFormat::Uint16 and Uint32 as set_index_buffer records them
Uint16 == 16

Uint32 == 32

EntityRanges == { << 0, 3 >> }

InstanceRanges == { << 0, 1 >> }

\* Model: its meshes (each with its buffers, element count and the index of
\* its material) and its materials (each with its bind group).  The k-th mesh
\* holds 3 * k elements.
Mesh(k, material) ==
    [vertex_buffer |-> MeshVertexBuffer(k), index_buffer |-> MeshIndexBuffer(k),
     num_elements |-> 3 * k, material |-> material]

Materials(n) == [j \in 1..n |-> [bind_group |-> MaterialBindGroup(j - 1)]]

Models ==
    { [meshes |-> [k \in DOMAIN ms |-> Mesh(k, ms[k])], materials |-> Materials(m)] :
        ms \in UNION { [1..n -> 0..(MaxMaterials - 1)] : n \in 0..MaxMeshes },
        m \in 0..MaxMaterials }

\* RenderStage::new(pipeline): every optional field is None
RenderStage_new(pipeline) ==
    [kind |-> "Render", pipeline |-> pipeline,
     vertex_buffer |-> None, index_buffer |-> None, bind_groups |-> None,
     model |-> None, instances |-> None, base_vertex |-> None, entities |-> None,
     color_attachments |-> None, overrides |-> {}]

\* ComputeStage::new(pipeline)
ComputeStage_new(pipeline) ==
    [kind |-> "Compute", pipeline |-> pipeline, bind_groups |-> None,
     dimensions |-> << 1, 1, 1 >>]

PipelineKinds == {"Render", "Compute"}

\* ColorAttachmentBuilder: whether its view was set
ColorAttachmentBuilders == [view : BOOLEAN]

\* The stages a graph is fed with: which of the fields Stage::process insists
\* on are set, and which variant the pipeline is
RenderStages ==
    { [RenderStage_new(p) EXCEPT !.color_attachments = ca, !.entities = e,
                                  !.instances = i] :
        p \in PipelineKinds,
        ca \in {None, Some([view |-> TRUE])},
        e \in {None} \cup { Some(r) : r \in EntityRanges },
        i \in {None} \cup { Some(r) : r \in InstanceRanges } }

ComputeStages == { ComputeStage_new(p) : p \in PipelineKinds }

Stages == RenderStages \cup ComputeStages

StageKeys == 0..MaxStageKey

\* RenderPass::new: no stage, no copy parameters
RenderPass_new == [stages |-> EmptyMap, copy_params |-> FALSE]

\* RenderPass: stages is the BTreeMap (a function on the occupied keys); the
\* graphs callers build carry no copy parameters, Worker::render alone sets
\* them
RenderPasses ==
    [stages : UNION { [ks -> Stages] :
                        ks \in { k \in SUBSET StageKeys : Cardinality(k) <= MaxStages } },
     copy_params : {FALSE}]

\* RenderPass::stage keeping the stage already under the key
stage_keep_old(rp, index, stage) ==
    IF index \in DOMAIN rp.stages THEN rp
    ELSE [rp EXCEPT !.stages = MapInsert(rp.stages, index, stage)]

\* RenderPass::stage (render_stage and compute_stage): BTreeMap::insert
stage(rp, index, s) == [rp EXCEPT !.stages = MapInsert(rp.stages, index, s)]

\* RenderPass::copy_params
copy_params(rp) == [rp EXCEPT !.copy_params = TRUE]

\* A command recorded into the encoder
Cmd(name, args) == [cmd |-> name, args |-> args]

ErrAt(e, index) == [tag |-> "Err", err |-> e, at |-> index]

\* set_bind_group for each bind group of an Option<Vec<&BindGroup>>
RECURSIVE set_bind_groups(_)
set_bind_groups(bgs) ==
    IF bgs = << >> THEN << >>
    ELSE << Cmd("set_bind_group", << Head(bgs) >>) >> \o set_bind_groups(Tail(bgs))

\* the for loop over m.meshes() in Stage::process; materials[mesh.material]
\* panics when the index is out of bounds
RECURSIVE draw_meshes(_, _, _, _)
draw_meshes(meshes, materials, instances, cmds) ==
    IF meshes = << >> THEN [cmds |-> cmds, ret |-> Unit]
    ELSE LET mesh == Head(meshes) IN
         IF mesh.material >= Len(materials)
         THEN [cmds |-> cmds, ret |-> Panic("index out of bounds")]
         ELSE draw_meshes(Tail(meshes), materials, instances,
                  cmds \o << Cmd("set_vertex_buffer", << mesh.vertex_buffer >>),
                             Cmd("set_index_buffer", << mesh.index_buffer, Uint32 >>),
                             Cmd("set_bind_group",
                                 << materials[mesh.material + 1].bind_group >>),
                             Cmd("draw_indexed",
                                 << 0, mesh.num_elements, 0 >> \o instances) >>)

Overrides == {"viewport", "scissors", "blend_constant", "stencil_reference"}

\* the set_viewport .. set_stencil_reference calls for the overrides set
set_overrides(overrides) ==
    (IF "viewport" \in overrides THEN << Cmd("set_viewport", << >>) >> ELSE << >>)
    \o (IF "scissors" \in overrides THEN << Cmd("set_scissor_rect", << >>) >> ELSE << >>)
    \o (IF "blend_constant" \in overrides
        THEN << Cmd("set_blend_constant", << >>) >> ELSE << >>)
    \o (IF "stencil_reference" \in overrides
        THEN << Cmd("set_stencil_reference", << >>) >> ELSE << >>)

\* Stage::process: the commands recorded into the encoder and the result
Stage_process(index, s) ==
    IF s.kind = "Render"
    THEN IF s.color_attachments = None
         THEN [cmds |-> << >>, ret |-> Err("EmptyRenderPassColorAttachemnts")]
         ELSE IF ~s.color_attachments[1].view
         THEN [cmds |-> << >>, ret |-> Err("EmptyTextureView")]
         ELSE IF s.entities = None
         THEN [cmds |-> << >>, ret |-> ErrAt("EmptyEntities", index)]
         ELSE IF s.instances = None
         THEN [cmds |-> << >>, ret |-> ErrAt("EmptyInstances", index)]
         ELSE
           LET entities == s.entities[1]
               instances == s.instances[1]
               indexed == s.index_buffer # None
               bound ==
                   << Cmd("begin_render_pass", << >>) >>
                   \o (IF s.vertex_buffer # None
                       THEN << Cmd("set_vertex_buffer", << s.vertex_buffer[1] >>) >>
                       ELSE << >>)
                   \o (IF s.index_buffer # None
                       THEN << Cmd("set_index_buffer", << s.index_buffer[1], Uint16 >>) >>
                       ELSE << >>)
                   \o (IF s.bind_groups # None THEN set_bind_groups(s.bind_groups[1])
                       ELSE << >>)
           IN
           IF s.pipeline # "Render"
           THEN [cmds |-> bound, ret |-> Err("NotRenderPipeline")]
           ELSE
             LET ready == bound \o << Cmd("set_pipeline", << >>) >>
                                \o set_overrides(s.overrides)
             IN
             IF s.model # None
             THEN draw_meshes(s.model[1].meshes, s.model[1].materials, instances, ready)
             ELSE IF indexed
             THEN [cmds |-> ready \o
                       << Cmd("draw_indexed",
                              entities
                              \o << IF s.base_vertex = None THEN 0 ELSE s.base_vertex[1] >>
                              \o instances) >>,
                   ret |-> Unit]
             ELSE [cmds |-> ready \o << Cmd("draw", entities \o instances) >>,
                   ret |-> Unit]
    ELSE IF s.pipeline # "Compute"
         THEN [cmds |-> << Cmd("begin_compute_pass", << >>) >>,
               ret |-> Err("NotComputePipeline")]
         ELSE [cmds |-> << Cmd("begin_compute_pass", << >>), Cmd("set_pipeline", << >>) >>
                        \o (IF s.bind_groups # None THEN set_bind_groups(s.bind_groups[1])
                            ELSE << >>)
                        \o << Cmd("dispatch_workgroups", s.dimensions) >>,
               ret |-> Unit]

Min(S) == CHOOSE x \in S : \A y \in S : x <= y

Max(S) == CHOOSE x \in S : \A y \in S : x >= y

\* the for loop of RenderPass::render visiting the keys from the largest down
RECURSIVE process_stages_descending(_, _, _, _)
process_stages_descending(stages, keys, encoder, calls) ==
    IF keys = {} THEN [encoder |-> encoder, ret |-> Unit, calls |-> calls]
    ELSE LET i == Max(keys)
             p == Stage_process(i, stages[i])
         IN  IF p.ret # Unit
             THEN [encoder |-> encoder \o p.cmds, ret |-> p.ret,
                   calls |-> Append(calls, << i, stages[i] >>)]
             ELSE process_stages_descending(stages, keys \ {i}, encoder \o p.cmds,
                                            Append(calls, << i, stages[i] >>))

\* the for loop of RenderPass::render over the BTreeMap, in key order; calls
\* lists the stages Stage::process was called on
RECURSIVE process_stages(_, _, _, _)
process_stages(stages, keys, encoder, calls) ==
    IF keys = {} THEN [encoder |-> encoder, ret |-> Unit, calls |-> calls]
    ELSE LET i == Min(keys)
             p == Stage_process(i, stages[i])
         IN  IF p.ret # Unit
             THEN [encoder |-> encoder \o p.cmds, ret |-> p.ret,
                   calls |-> Append(calls, << i, stages[i] >>)]
             ELSE process_stages(stages, keys \ {i}, encoder \o p.cmds,
                                 Append(calls, << i, stages[i] >>))

CopyCmd == Cmd("copy_texture_to_buffer", << >>)

\* RenderPass::render visiting the stages from the largest key down
RenderPass_render_descending(rp) ==
    LET staged == process_stages_descending(rp.stages, DOMAIN rp.stages, << >>, << >>) IN
    IF staged.ret # Unit
    THEN [ret |-> staged.ret, encoder |-> staged.encoder, calls |-> staged.calls,
          submits |-> 0]
    ELSE [ret |-> Unit,
          encoder |-> IF rp.copy_params THEN Append(staged.encoder, CopyCmd)
                      ELSE staged.encoder,
          calls |-> staged.calls,
          submits |-> 1]

\* RenderPass::render recording the copy-out before the stages
RenderPass_render_copy_first(rp) ==
    LET staged == process_stages(rp.stages, DOMAIN rp.stages, << >>, << >>) IN
    IF staged.ret # Unit
    THEN [ret |-> staged.ret, encoder |-> staged.encoder, calls |-> staged.calls,
          submits |-> 0]
    ELSE [ret |-> Unit,
          encoder |-> IF rp.copy_params THEN << CopyCmd >> \o staged.encoder
                      ELSE staged.encoder,
          calls |-> staged.calls,
          submits |-> 1]

\* RenderPass::render: result, the encoder's commands, the stages processed
\* and the submissions
RenderPass_render(rp) ==
    LET staged == process_stages(rp.stages, DOMAIN rp.stages, << >>, << >>) IN
    IF staged.ret # Unit
    THEN [ret |-> staged.ret, encoder |-> staged.encoder, calls |-> staged.calls,
          submits |-> 0]
    ELSE [ret |-> Unit,
          encoder |-> IF rp.copy_params THEN Append(staged.encoder, CopyCmd)
                      ELSE staged.encoder,
          calls |-> staged.calls,
          submits |-> 1]

\* Worker::render
Worker_render(v, rp) ==
    IF v.tag = "Texture" THEN RenderPass_render(copy_params(rp))
    ELSE IF v.tag = "Surface" THEN RenderPass_render(rp)
    ELSE [ret |-> Unit, encoder |-> << >>, calls |-> << >>, submits |-> 0]

SurfaceResults == {"Ok", "Timeout", "Outdated", "Lost", "OutOfMemory"}

\* Worker::view_surface: acquired is the outcome of get_current_texture
view_surface(v, inst, acquired) ==
    IF acquired = "Ok"
    THEN [view |-> ViewSurface(inst), ret |-> Ok("TextureView")]
    ELSE [view |-> v, ret |-> [tag |-> "Err", err |-> "SurfaceError", kind |-> acquired]]

\* Worker::init_runtime_texture and view_texture
view_texture(v, inst, sz) ==
    [view |-> ViewTexture(inst, sz[1] * sz[2] * BytesPerPixel), ret |-> Ok("TextureView")]

SaveResults == {"Ok", "ImageError"}

\* Worker::present: the view afterwards, the result, and whether the frame
\* was handed to the display or the image written
present_keep(v, sz, map_result, saved) ==
    IF v.tag = "Surface" THEN [view |-> v, ret |-> Unit, presents |-> 1]
    ELSE IF v.tag = "Texture"
         THEN IF map_result = "Dropped"
              THEN [view |-> v, ret |-> Err("FlumeRecvError"), presents |-> 0]
              ELSE IF map_result = "BufferAsyncError"
              THEN [view |-> v, ret |-> Err("BufferAsyncError"), presents |-> 0]
              ELSE IF v.cap < sz[1] * sz[2] * BytesPerPixel
              THEN [view |-> v, ret |-> Err("ImageBufferCreate"), presents |-> 0]
              ELSE IF saved # "Ok"
              THEN [view |-> v, ret |-> Err("ImageError"), presents |-> 0]
              ELSE [view |-> v, ret |-> Unit, presents |-> 1]
         ELSE [view |-> v, ret |-> Unit, presents |-> 0]

present(v, sz, map_result, saved) ==
    IF v.tag = "Surface" THEN [view |-> NoView, ret |-> Unit, presents |-> 1]
    ELSE IF v.tag = "Texture"
         THEN IF map_result = "Dropped"
              THEN [view |-> NoView, ret |-> Err("FlumeRecvError"), presents |-> 0]
              ELSE IF map_result = "BufferAsyncError"
              THEN [view |-> NoView, ret |-> Err("BufferAsyncError"), presents |-> 0]
              ELSE IF v.cap < sz[1] * sz[2] * BytesPerPixel
              THEN [view |-> NoView, ret |-> Err("ImageBufferCreate"), presents |-> 0]
              ELSE IF saved # "Ok"
              THEN [view |-> NoView, ret |-> Err("ImageError"), presents |-> 0]
              ELSE [view |-> NoView, ret |-> Unit, presents |-> 1]
         ELSE [view |-> NoView, ret |-> Unit, presents |-> 0]

\* Worker::resize_by_size: the new size and surface configuration, and
\* whether surface.configure was called
resize_by_size(sz, cfg, new_size) ==
    IF new_size[1] > 0 /\ new_size[2] > 0
    THEN [size |-> new_size, config |-> new_size, configured |-> TRUE]
    ELSE [size |-> sz, config |-> cfg, configured |-> FALSE]

\* Worker.limits.max_texture_dimension_2d, scaled down so that a window can
\* be larger than the limit
max_texture_dimension_2d == MaxDim - 1

\* f64 scale factors are counted in units of 1 / ScaleUnit; the values are
\* powers of two (and zero), for which the f64 arithmetic of resize_by_scale
\* is exact
ScaleUnit == 2

ScaleFactors == {0, 1, 2, 4}

\* Worker::resize_by_scale with its call of resize(): (size / scale) * new,
\* truncated by `as u32`, each dimension clamped to the device limit
resize_by_scale(sz, cfg, sf, new_scale_factor) ==
    IF sf > 0
    THEN LET w == (sz[1] * new_scale_factor) \div sf
             h == (sz[2] * new_scale_factor) \div sf
             a == max_texture_dimension_2d
             clamped == << IF w > a THEN a ELSE w, IF h > a THEN a ELSE h >>
             resized == resize_by_size(clamped, cfg, clamped)
         IN  [size |-> resized.size, config |-> resized.config,
              scale_factor |-> new_scale_factor]
    ELSE [size |-> sz, config |-> cfg, scale_factor |-> sf]

\* Worker::resize
resize(sz, cfg) == resize_by_size(sz, cfg, sz)

(***************************************************************************)
(* State.                                                                  *)
(***************************************************************************)
VARIABLES
    context,    \* Worker.context
    held,       \* <<kind, id>> of the builders returned by create_<kind>_id
    ret,        \* result of the last call
    lastOp,     \* history: the last call, its arguments, and whether the id
                \* it names was registered in its kind when it was made
    expected,   \* history: per kind, the value last stored under each id
    registered, \* history: every id ever registered under any kind
    mem,        \* device memory: the bytes of each allocated wgpu::Buffer
    pending,    \* history: the last whole-buffer write not yet overwritten
    view,       \* Worker.view
    size,       \* Worker.size
    config,     \* Worker.surface_properties.config (width, height)
    nextInst,   \* history: number of View instances acquired so far
    presented,  \* history: per View instance, how often it was presented
    scale_factor, \* Worker.scale_factor, in units of 1 / ScaleUnit
    rendered,   \* history: whether a render() has completed on the View now held
    pc,         \* position of the frame callback (RenderWorker::render)
    pass,       \* the RenderPass under construction
    inserted,   \* history: per key, the stage last inserted into pass
    draft,      \* the RenderStage a single-stage graph is built from
    chan,       \* the bounded(1) channel of the read_buffer_async in progress
    tx,         \* where the channel's Sender is: with the map callback, dropped
    reader      \* position of the read_buffer_async in progress, and its buffer

viewVars == << view, size, config, nextInst, presented >>

graphVars == << pass, inserted, draft >>

frameVars == << scale_factor, rendered, pc >>

mapVars == << chan, tx, reader >>

vars ==
    << context, held, ret, lastOp, expected, registered, mem, pending, viewVars, frameVars,
       graphVars, mapVars >>

\* What the arena calls leave alone.
nonCtxVars == << mem, pending, viewVars, frameVars, graphVars, mapVars >>

DrawSeqs == UNION { [1..n -> IdSpace] : n \in 1..MaxDraws }

NoOp == [op |-> "none"]

Call(op, k, id, r) ==
    [op |-> op, kind |-> k, id |-> id, r |-> r, hit |-> id \in DOMAIN context.maps[k]]

InitContext ==
    /\ context = Context_new
    /\ held = {}
    /\ ret = Unit
    /\ lastOp = NoOp
    /\ expected = [k \in Kinds |-> EmptyMap]
    /\ registered = {}

NoPending == [tag |-> "none"]

InitBuffer ==
    /\ mem = EmptyMap
    /\ pending = NoPending

\* Runtime::init hands Worker::new the window size, the configured surface
\* and no View.  The run starts with the smallest window; resize_by_size
\* reaches every other size.
InitSize == << 1, 1 >>

InitView ==
    /\ view = NoView
    /\ size = InitSize
    /\ config = size
    /\ nextInst = 0
    /\ presented = [i \in 0..(MaxViews - 1) |-> 0]
    /\ scale_factor = ScaleUnit
    /\ rendered = FALSE
    /\ pc = "idle"

\* No RenderPass and no RenderStage has been started.
InitGraph ==
    /\ pass = RenderPass_new
    /\ inserted = EmptyMap
    /\ draft = None

\* No read_buffer_async is in progress.
NoReader == [pc |-> "idle"]

InitMap ==
    /\ chan = << >>
    /\ tx = "none"
    /\ reader = NoReader

Init == InitContext /\ InitBuffer /\ InitView /\ InitGraph /\ InitMap

\* History bookkeeping for a call on kind k that stored r under id.
Stored(k, id, r) ==
    /\ expected' = [expected EXCEPT ![k] = MapInsert(@, id, r)]
    /\ registered' = registered \cup {id}

Removed(k, id) ==
    /\ expected' = [expected EXCEPT ![k] = MapRemove(@, id)]
    /\ UNCHANGED registered

\* Worker::create_<kind>_id
CreateId(k) ==
    /\ Cardinality(held) < MaxHeld
    /\ \E draws \in DrawSeqs :
          LET g == generate_unique_id(context, draws) IN
          /\ g.tag = "Id"
          /\ held' = held \cup { << k, g.val >> }
          /\ ret' = g
          /\ lastOp' = [op |-> "create_id", kind |-> k]
    /\ UNCHANGED << context, expected, registered, nonCtxVars >>

\* Worker::add_<kind> of the resource built by a builder from create_<kind>_id
AddCreated(k) ==
    \E h \in held, d \in 0..MaxData :
        LET r == [id |-> h[2], data |-> d] IN
        /\ h[1] = k
        /\ held' = held \ {h}
        /\ IF r.id \in DOMAIN context.maps[k] THEN UNCHANGED << expected, registered >> ELSE Stored(k, r.id, r)
        /\ context' = add(context, k, r)
        /\ ret' = Unit
        /\ lastOp' = Call("add_created", k, r.id, r)
        /\ UNCHANGED nonCtxVars

\* Worker::add_<kind> of any resource (builder new() or new_indexed(id))
Add(k) ==
    \E r \in Resources :
        /\ IF r.id \in DOMAIN context.maps[k] THEN UNCHANGED << expected, registered >> ELSE Stored(k, r.id, r)
        /\ context' = add(context, k, r)
        /\ ret' = Unit
        /\ lastOp' = Call("add", k, r.id, r)
        /\ UNCHANGED << held, nonCtxVars >>

\* Worker::replace_<kind>
Replace(k) ==
    \E id \in IdSpace, r \in Resources :
        /\ IF id \in DOMAIN context.maps[k]
           THEN Stored(k, id, [r EXCEPT !.id = id])
           ELSE UNCHANGED << expected, registered >>
        /\ context' = replace(context, k, id, r)
        /\ ret' = Unit
        /\ lastOp' = Call("replace", k, id, r)
        /\ UNCHANGED << held, nonCtxVars >>

\* Worker::get_<kind>, get_<kind>_mut, get_<kind>_ref
Get(k) ==
    \E id \in IdSpace :
        /\ ret' = get(context, k, id)
        /\ lastOp' = Call("get", k, id, << >>)
        /\ UNCHANGED << context, held, expected, registered, nonCtxVars >>

GetMut(k) ==
    \E id \in IdSpace :
        /\ ret' = get_mut(context, k, id)
        /\ lastOp' = Call("get_mut", k, id, << >>)
        /\ UNCHANGED << context, held, expected, registered, nonCtxVars >>

GetRef(k) ==
    \E id \in IdSpace :
        /\ ret' = get_ref(context, k, id)
        /\ lastOp' = Call("get_ref", k, id, << >>)
        /\ UNCHANGED << context, held, expected, registered, nonCtxVars >>

\* Worker::take_<kind>
Take(k) ==
    \E id \in IdSpace :
        LET t == take(context, k, id) IN
        /\ context' = t.ctx
        /\ ret' = t.ret
        /\ lastOp' = Call("take", k, id, << >>)
        /\ IF id \in DOMAIN context.maps[k] THEN Removed(k, id) ELSE UNCHANGED << expected, registered >>
        /\ UNCHANGED << held, nonCtxVars >>

\* The arena under add / replace / get / take with caller-chosen ids.
NextContext ==
    \/ \E k \in Kinds : Add(k)
    \/ \E k \in Kinds : Replace(k)
    \/ \E k \in Kinds : Get(k)
    \/ \E k \in Kinds : GetMut(k)
    \/ \E k \in Kinds : GetRef(k)
    \/ \E k \in Kinds : Take(k)

Spec == Init /\ [][NextContext]_vars

\* The arena when every id comes from create_<kind>_id.
NextCreate ==
    \/ \E k \in Kinds : CreateId(k)
    \/ \E k \in Kinds : AddCreated(k)
    \/ \E k \in Kinds : Take(k)

SpecCreate == Init /\ [][NextCreate]_vars

(***************************************************************************)
(* Properties of the arena.                                                *)
(***************************************************************************)
Lookups == {"get", "get_mut", "get_ref", "take"}

\* C1: get_<kind>(id) returns the value last stored under id in that kind by
\* a successful add or replace, and NotFound when the id was never added or
\* was taken since; calls on one kind never change what another kind returns.
C1_GetReturnsLastStored ==
    \A k \in Kinds, id \in IdSpace :
        get(context, k, id) =
            IF id \in DOMAIN expected[k]
            THEN Ok(expected[k][id])
            ELSE ContextFieldIsNotExist(k, id)

C1_Witness ==
    /\ lastOp.op = "get" /\ ret.tag = "Ok"
    /\ \E id \in context.ids : \A k \in Kinds : id \notin DOMAIN context.maps[k]
    /\ \E k1 \in Kinds, k2 \in Kinds, id \in IdSpace :
          /\ id \in DOMAIN context.maps[k1] /\ id \in DOMAIN context.maps[k2]
          /\ context.maps[k1][id] # context.maps[k2][id]

\* C2 (as claimed): no id is registered under more than one resource kind at
\* the same time, when ids come from create_<kind>_id.
C2_KindsDisjoint ==
    \A k1 \in Kinds, k2 \in Kinds :
        k1 # k2 => (DOMAIN context.maps[k1]) \cap (DOMAIN context.maps[k2]) = {}

\* C3: the id generate_unique_id returns is not in the arena's id set at the
\* moment it returns; a drawn candidate that is in the set is not returned.
C3_GeneratedIdIsFresh ==
    lastOp.op = "create_id" => (ret.tag = "Id" /\ ret.val \notin context.ids)

C3_Witness ==
    /\ lastOp.op = "create_id" /\ ret.drawn > 1
    /\ context.ids # {}

\* C4: add_<kind>(r) with r.id already registered in the kind leaves the whole
\* arena unchanged (stored value and id set); with r.id absent it inserts r.
C4_AddPresentIsNoOp ==
    [][ lastOp'.op = "add" =>
          IF lastOp'.id \in DOMAIN context.maps[lastOp'.kind]
          THEN context' = context
          ELSE /\ context'.maps[lastOp'.kind] =
                     MapInsert(context.maps[lastOp'.kind], lastOp'.id, lastOp'.r)
               /\ context'.ids = context.ids \cup {lastOp'.id} ]_vars

C4_Witness ==
    /\ lastOp.op = "add" /\ lastOp.hit
    /\ context.maps[lastOp.kind][lastOp.id] # lastOp.r

\* C5: replace_<kind>(id, r) on a registered id stores r with its id field
\* rewritten to id and changes no other entry; on an absent id the arena is
\* unchanged and nothing is inserted.
C5_ReplaceOnlyIfPresent ==
    [][ lastOp'.op = "replace" =>
          LET k == lastOp'.kind
              id == lastOp'.id
          IN  IF id \in DOMAIN context.maps[k]
              THEN /\ context'.maps[k] =
                         MapInsert(context.maps[k], id, [lastOp'.r EXCEPT !.id = id])
                   /\ DOMAIN context'.maps[k] = DOMAIN context.maps[k]
                   /\ \A j \in Kinds \ {k} : context'.maps[j] = context.maps[j]
                   /\ context'.ids = context.ids
              ELSE context' = context ]_vars

C5_Witness ==
    /\ lastOp.op = "replace" /\ lastOp.hit
    /\ lastOp.r.id # lastOp.id
    /\ context.maps[lastOp.kind][lastOp.id] = [lastOp.r EXCEPT !.id = lastOp.id]

\* C6: take_<kind>(id) on a registered id returns the stored value and removes
\* it; get, get_mut, get_ref and take on an id that is not registered (never
\* added, or taken and not added again) fail with the NotFound error naming
\* the kind and the id; take on an absent id leaves the arena unchanged.
C6_TakeRemoves ==
    [][ /\ lastOp'.op = "take" =>
             LET k == lastOp'.kind
                 id == lastOp'.id
             IN  IF id \in DOMAIN context.maps[k]
                 THEN /\ ret' = Ok(context.maps[k][id])
                      /\ context'.maps[k] = MapRemove(context.maps[k], id)
                      /\ \A j \in Kinds \ {k} : context'.maps[j] = context.maps[j]
                 ELSE /\ ret' = ContextFieldIsNotExist(k, id)
                      /\ context' = context
        /\ (lastOp'.op \in Lookups /\ lastOp'.id \notin DOMAIN expected[lastOp'.kind]) =>
              ret' = ContextFieldIsNotExist(lastOp'.kind, lastOp'.id) ]_vars

C6_Witness ==
    /\ lastOp.op \in Lookups /\ ~lastOp.hit
    /\ lastOp.id \in context.ids
    /\ ret = ContextFieldIsNotExist(lastOp.kind, lastOp.id)

(***************************************************************************)
(* Buffer I/O of the Worker.                                               *)
(***************************************************************************)
Alive == ret.tag # "Panic"

nonBufVars == << held, viewVars, frameVars, graphVars, mapVars >>

BufferKind == KindNames[1]

BufferCall(op, id, b, offset, data) ==
    [op |-> op, id |-> id, handle |-> b.data, hit |-> TRUE,
     offset |-> offset, len |-> size_of_val(data)]

BufferMiss(op, id) == [op |-> op, id |-> id, hit |-> FALSE]

\* History: a successful write of data at offset 0 that fills buffer b is
\* remembered until the next successful write into b.
Written(b, offset, data, res) ==
    pending' =
        IF res.ret # Unit THEN pending
        ELSE IF offset = 0 /\ size_of_val(data) = Len(mem[b.data])
             THEN [tag |-> "some", handle |-> b.data, data |-> data]
             ELSE IF pending.tag = "some" /\ pending.handle = b.data
                  THEN NoPending ELSE pending

\* create_buffer_id / create_buffer, BufferBuilder setters and build, add_buffer
BuildBuffer ==
    /\ Alive
    /\ \E h \in Handles, id \in IdSpace, bytes \in 0..MaxCap,
          data \in { [tag |-> "None"] } \cup { [tag |-> "Some", val |-> d] : d \in Datas } :
          LET b == [id |-> id, data |-> h] IN
          /\ h \notin DOMAIN mem
          /\ \A g \in Handles : g < h => g \in DOMAIN mem
          /\ mem' = MapInsert(mem, h, BufferBuilder_build(data, bytes))
          /\ IF id \in DOMAIN context.maps[BufferKind]
             THEN UNCHANGED << expected, registered >> ELSE Stored(BufferKind, id, b)
          /\ context' = add(context, BufferKind, b)
          /\ ret' = Unit
          /\ lastOp' = [op |-> "build_buffer", id |-> id, handle |-> h]
    /\ UNCHANGED << pending, nonBufVars >>

\* Worker::update_buffer
UpdateBuffer ==
    /\ Alive
    /\ \E id \in IdSpace, offset \in Offsets, data \in Datas, overflow_checks \in BOOLEAN :
          LET buffer == get_ref(context, BufferKind, id) IN
          IF buffer.tag # "Ok"
          THEN /\ ret' = buffer
               /\ lastOp' = BufferMiss("update_buffer", id)
               /\ UNCHANGED << mem, pending >>
          ELSE LET res == update_buffer_data(mem, buffer.val, offset, data, overflow_checks) IN
               /\ mem' = res.mem
               /\ ret' = res.ret
               /\ lastOp' = BufferCall("update_buffer", id, buffer.val, offset, data)
               /\ Written(buffer.val, offset, data, res)
    /\ UNCHANGED << context, expected, registered, nonBufVars >>

\* Worker::update_buffer_direct, on a buffer the caller borrowed from the arena
UpdateBufferDirect ==
    /\ Alive
    /\ \E id \in DOMAIN context.maps[BufferKind], offset \in Offsets, data \in Datas,
          overflow_checks \in BOOLEAN :
          LET buffer == context.maps[BufferKind][id]
              res == update_buffer_data(mem, buffer, offset, data, overflow_checks)
          IN  /\ mem' = res.mem
              /\ ret' = res.ret
              /\ lastOp' = BufferCall("update_buffer_direct", id, buffer, offset, data)
              /\ Written(buffer, offset, data, res)
    /\ UNCHANGED << context, expected, registered, nonBufVars >>

\* Worker::read_buffer
ReadBuffer ==
    /\ Alive
    /\ \E id \in IdSpace, map_result \in MapResults :
          LET buffer == get_ref(context, BufferKind, id) IN
          IF buffer.tag # "Ok"
          THEN /\ ret' = buffer
               /\ lastOp' = BufferMiss("read_buffer", id)
          ELSE /\ ret' = read_buffer(mem, buffer.val, map_result)
               /\ lastOp' = BufferCall("read_buffer", id, buffer.val, 0, << >>)
    /\ UNCHANGED << context, expected, registered, mem, pending, nonBufVars >>

NextBuffer ==
    \/ BuildBuffer
    \/ UpdateBuffer
    \/ UpdateBufferDirect
    \/ ReadBuffer

SpecBuffer == Init /\ [][NextBuffer]_vars

Updates == {"update_buffer", "update_buffer_direct"}

\* C7 (as claimed): a write of K bytes at offset O into a buffer of capacity C
\* succeeds iff O + K <= C; when it fails it returns WrongBufferSize and no
\* byte of the buffer is changed.
C7_WriteIffFits ==
    [][ (lastOp'.op \in Updates /\ lastOp'.hit) =>
          /\ (ret' = Unit) <=> (lastOp'.offset + lastOp'.len <= Len(mem[lastOp'.handle]))
          /\ (ret' # Unit) => (ret' = Err("WrongBufferSize") /\ mem' = mem) ]_vars

nonViewVars == << context, held, expected, registered, mem, pending, pc, graphVars, mapVars >>

ViewCall(op, submits, presents) ==
    [op |-> op, viewBefore |-> view, renderedBefore |-> rendered, submits |-> submits,
     presents |-> presents]

\* History bookkeeping: a render() that returned Ok on View v has completed.
Rendered(v, r) == rendered \/ (v # NoView /\ r.ret = Unit)

\* Worker::view_surface
View_surface ==
    /\ nextInst < MaxViews
    /\ \E acquired \in SurfaceResults :
          LET r == view_surface(view, nextInst, acquired) IN
          /\ view' = r.view
          /\ ret' = r.ret
          /\ nextInst' = IF acquired = "Ok" THEN nextInst + 1 ELSE nextInst
          /\ rendered' = IF acquired = "Ok" THEN FALSE ELSE rendered
          /\ lastOp' = ViewCall("view_surface", 0, 0)
    /\ UNCHANGED << size, config, presented, scale_factor, nonViewVars >>

\* Worker::view_texture
View_texture ==
    /\ nextInst < MaxViews
    /\ LET r == view_texture(view, nextInst, size) IN
          /\ view' = r.view
          /\ ret' = r.ret
          /\ nextInst' = nextInst + 1
          /\ rendered' = FALSE
          /\ lastOp' = ViewCall("view_texture", 0, 0)
    /\ UNCHANGED << size, config, presented, scale_factor, nonViewVars >>

\* Worker::render
Render ==
    /\ \E rp \in RenderPasses :
          LET r == Worker_render(view, rp) IN
          /\ ret' = r.ret
          /\ rendered' = Rendered(view, r)
          /\ lastOp' = ViewCall("render", r.submits, 0)
    /\ UNCHANGED << view, size, config, nextInst, presented, scale_factor, nonViewVars >>

\* Worker::present
Present ==
    /\ \E map_result \in MapResults, saved \in SaveResults :
          LET r == present(view, size, map_result, saved) IN
          /\ view' = r.view
          /\ ret' = r.ret
          /\ presented' = IF r.presents > 0
                          THEN [presented EXCEPT ![view.inst] = @ + r.presents]
                          ELSE presented
          /\ rendered' = FALSE
          /\ lastOp' = ViewCall("present", 0, r.presents)
    /\ UNCHANGED << size, config, nextInst, scale_factor, nonViewVars >>

\* Worker::resize_by_size
Resize_by_size ==
    /\ \E new_size \in (0..MaxDim) \X (0..MaxDim) :
          LET r == resize_by_size(size, config, new_size) IN
          /\ size' = r.size
          /\ config' = r.config
          /\ ret' = Unit
          /\ lastOp' = [op |-> "resize_by_size", new_size |-> new_size, viewBefore |-> view]
    /\ UNCHANGED << view, nextInst, presented, scale_factor, rendered, nonViewVars >>

\* Worker::resize_by_scale
Resize_by_scale ==
    /\ \E new_scale_factor \in ScaleFactors :
          LET r == resize_by_scale(size, config, scale_factor, new_scale_factor) IN
          /\ size' = r.size
          /\ config' = r.config
          /\ scale_factor' = r.scale_factor
          /\ ret' = Unit
          /\ lastOp' = [op |-> "resize_by_scale", new_scale_factor |-> new_scale_factor,
                        viewBefore |-> view]
    /\ UNCHANGED << view, nextInst, presented, rendered, nonViewVars >>

\* Worker::resize
Resize ==
    /\ LET r == resize(size, config) IN
          /\ size' = r.size
          /\ config' = r.config
          /\ ret' = Unit
          /\ lastOp' = [op |-> "resize", viewBefore |-> view]
    /\ UNCHANGED << view, nextInst, presented, scale_factor, rendered, nonViewVars >>

NextView ==
    \/ View_surface
    \/ View_texture
    \/ Render
    \/ Present
    \/ Resize_by_size

SpecView == Init /\ [][NextView]_vars

\* C9 (as claimed): render() and present() fail with NotInitView whenever the
\* session has no active View, and then nothing is submitted or presented.
C9_NotInitView ==
    (lastOp.op \in {"render", "present"} /\ lastOp.viewBefore = NoView)
        => (ret = Err("NotInitView") /\ lastOp.submits = 0 /\ lastOp.presents = 0)

\* C10: after present() returns, on every outcome, the session holds no
\* View; no View instance is presented twice; and until a view_surface or
\* view_texture call succeeds, render() submits nothing and present() presents
\* nothing.
C10_PresentConsumesView ==
    /\ lastOp.op = "present" => view = NoView
    /\ \A i \in DOMAIN presented : presented[i] <= 1
    /\ (lastOp.op \in {"render", "present"} /\ lastOp.viewBefore = NoView)
          => (lastOp.submits = 0 /\ lastOp.presents = 0 /\ view = NoView)

C10_Witness ==
    /\ lastOp.op = "present"
    /\ lastOp.viewBefore.tag = "Texture"
    /\ ret # Unit
    /\ \E i \in DOMAIN presented : presented[i] = 1

(***************************************************************************)
(* Resizing the Worker.                                                    *)
(***************************************************************************)
NextResize ==
    \/ Resize_by_size
    \/ Resize_by_scale
    \/ Resize

SpecResize == Init /\ [][NextResize]_vars

Resizes == {"resize_by_size", "resize_by_scale"}

\* C19 (as claimed): a resize_by_size or resize_by_scale call whose resulting
\* width or height is zero is a no-op, leaving the reported size and the scale
\* factor unchanged; so every such call either changes neither or ends with
\* both dimensions non-zero.
C19_ZeroDimensionIsNoOp ==
    [][lastOp'.op \in Resizes
          => \/ (size' = size /\ scale_factor' = scale_factor)
             \/ (size'[1] > 0 /\ size'[2] > 0)]_vars

\* C20 (as claimed): after any resize_by_size or resize_by_scale call neither
\* dimension of the reported size exceeds the device's maximum 2-D texture
\* dimension.
C20_SizeWithinLimit ==
    lastOp.op \in Resizes
        => (size[1] <= max_texture_dimension_2d /\ size[2] <= max_texture_dimension_2d)

(***************************************************************************)
(* Building a stage graph and rendering it.                                *)
(***************************************************************************)
nonGraphVars ==
    << context, held, expected, registered, mem, pending, size, config, presented, scale_factor,
       pc, draft, mapVars >>

\* History bookkeeping: stage s is the one last inserted under key k.
Inserted(k, s) ==
    MapInsert(inserted, k,
              [stage |-> s,
               times |-> IF k \in DOMAIN inserted THEN inserted[k].times + 1 ELSE 1])

InsertAllowed(k) == IF k \in DOMAIN inserted THEN inserted[k].times < MaxInserts ELSE TRUE

\* RenderPass::render_stage
Render_stage ==
    /\ \E k \in StageKeys, s \in RenderStages :
          /\ InsertAllowed(k)
          /\ pass' = stage(pass, k, s)
          /\ inserted' = Inserted(k, s)
          /\ lastOp' = [op |-> "render_stage", key |-> k]
    /\ ret' = Unit
    /\ UNCHANGED << view, nextInst, rendered, nonGraphVars >>

\* RenderPass::compute_stage
Compute_stage ==
    /\ \E k \in StageKeys, s \in ComputeStages :
          /\ InsertAllowed(k)
          /\ pass' = stage(pass, k, s)
          /\ inserted' = Inserted(k, s)
          /\ lastOp' = [op |-> "compute_stage", key |-> k]
    /\ ret' = Unit
    /\ UNCHANGED << view, nextInst, rendered, nonGraphVars >>

\* Worker::render of the graph built so far; the next graph starts from
\* Worker::render_pass()
Render_pass ==
    /\ LET r == Worker_render(view, pass) IN
          /\ ret' = r.ret
          /\ rendered' = Rendered(view, r)
          /\ lastOp' = [op |-> "render", viewBefore |-> view, renderedBefore |-> rendered,
                        submits |-> r.submits, presents |-> 0, graph |-> pass,
                        inserted |-> inserted, encoder |-> r.encoder, calls |-> r.calls]
    /\ pass' = RenderPass_new
    /\ inserted' = EmptyMap
    /\ UNCHANGED << view, nextInst, nonGraphVars >>

NextGraph ==
    \/ Render_stage
    \/ Compute_stage
    \/ View_surface
    \/ View_texture
    \/ Render_pass

SpecGraph == Init /\ [][NextGraph]_vars

\* A graph was handed to RenderPass::render by the last call.
GraphRendered == lastOp.op = "render" /\ lastOp.viewBefore # NoView

\* the commands Stage::process records for the stages of calls, in that order
RECURSIVE StageCmds(_)
StageCmds(calls) ==
    IF calls = << >> THEN << >>
    ELSE Stage_process(Head(calls)[1], Head(calls)[2]).cmds \o StageCmds(Tail(calls))

Copies(encoder) == Len(SelectSeq(encoder, LAMBDA c : c = CopyCmd))

\* C13: a successful render calls Stage::process on every stage of the graph
\* exactly once, in ascending key order, records the commands of all of them
\* in that order into the one encoder, and submits exactly once; a render in
\* which a stage fails visits the stages in ascending key order up to the
\* failing one and submits nothing.
C13_StagesOnceInKeyOrder ==
    GraphRendered =>
        LET calls == lastOp.calls
            stages == lastOp.graph.stages
        IN  /\ \A i \in 1..Len(calls) :
                  /\ calls[i][1] \in DOMAIN stages
                  /\ calls[i][2] = stages[calls[i][1]]
            /\ \A i, j \in 1..Len(calls) : i < j => calls[i][1] < calls[j][1]
            /\ \A i \in 1..Len(calls) : \A k \in DOMAIN stages :
                  k < calls[i][1] => \E j \in 1..(i - 1) : calls[j][1] = k
            /\ IF ret = Unit
               THEN /\ Len(calls) = Cardinality(DOMAIN stages)
                    /\ lastOp.submits = 1
                    /\ SubSeq(lastOp.encoder, 1, Len(StageCmds(calls))) = StageCmds(calls)
               ELSE lastOp.submits = 0

C13_Witness ==
    /\ GraphRendered
    /\ ret = Unit
    /\ Len(lastOp.calls) = 2
    /\ lastOp.calls[1][2].kind # lastOp.calls[2][2].kind
    /\ lastOp.submits = 1

NoColorAttachment(s) == s.kind = "Compute" \/ s.color_attachments = None

\* C15 (as claimed): rendering a graph in which no color attachment is
\* configured, whatever stages it holds, fails with
\* EmptyRenderPassColorAttachemnts and submits nothing.
C15_NoAttachmentFails ==
    (GraphRendered /\ \A k \in DOMAIN lastOp.graph.stages :
                          NoColorAttachment(lastOp.graph.stages[k]))
        => (ret = Err("EmptyRenderPassColorAttachemnts") /\ lastOp.submits = 0)

\* C16 (as claimed): if a Render stage of the graph lacks its color
\* attachments, render() returns EmptyRenderPassColorAttachemnts and no command
\* of any stage has been recorded into the encoder.
C16_AttachmentCheckedFirst ==
    (GraphRendered /\ \E k \in DOMAIN lastOp.graph.stages :
                          /\ lastOp.graph.stages[k].kind = "Render"
                          /\ lastOp.graph.stages[k].color_attachments = None)
        => (ret = Err("EmptyRenderPassColorAttachemnts") /\ lastOp.encoder = << >>)

\* C18: the graph holds, under each key used, the stage last inserted under
\* it; render() executes only those stages, and a successful render executes
\* as many stages as distinct keys were used.
C18_LastInsertWins ==
    /\ DOMAIN pass.stages = DOMAIN inserted
    /\ \A k \in DOMAIN inserted : pass.stages[k] = inserted[k].stage
    /\ GraphRendered =>
          /\ \A i \in 1..Len(lastOp.calls) :
                /\ lastOp.calls[i][1] \in DOMAIN lastOp.inserted
                /\ lastOp.calls[i][2] = lastOp.inserted[lastOp.calls[i][1]].stage
          /\ ret = Unit => Len(lastOp.calls) = Cardinality(DOMAIN lastOp.inserted)

C18_Witness ==
    /\ GraphRendered
    /\ ret = Unit
    /\ Len(lastOp.calls) = 2
    /\ \E k \in DOMAIN lastOp.inserted : lastOp.inserted[k].times = 2

(***************************************************************************)
(* Building one Render stage and executing it as a single-stage graph.     *)
(***************************************************************************)
nonStageVars ==
    << context, held, expected, registered, mem, pending, viewVars, frameVars, pass, inserted,
       mapVars >>

StageBuilderCall == [op |-> "stage_builder"]

\* A builder method of RenderStage: field f of the stage under construction
\* becomes v.
Stage_set(f, v) ==
    /\ Alive
    /\ draft # None
    /\ draft' = Some([draft[1] EXCEPT ![f] = v])
    /\ ret' = Unit
    /\ lastOp' = StageBuilderCall
    /\ UNCHANGED nonStageVars

\* RenderStage::new
Stage_new ==
    /\ Alive
    /\ \E p \in PipelineKinds : draft' = Some(RenderStage_new(p))
    /\ ret' = Unit
    /\ lastOp' = StageBuilderCall
    /\ UNCHANGED nonStageVars

\* RenderStage::color_attachments_builder
Stage_color_attachments == \E b \in ColorAttachmentBuilders : Stage_set("color_attachments", Some(b))

\* RenderStage::entities
Stage_entities == \E r \in EntityRanges : Stage_set("entities", Some(r))

\* RenderStage::instances
Stage_instances == \E r \in InstanceRanges : Stage_set("instances", Some(r))

\* RenderStage::base_vertex
Stage_base_vertex == Stage_set("base_vertex", Some(1))

\* RenderStage::model
Stage_model == \E m \in Models : Stage_set("model", Some(m))

\* RenderStage::vertex_buffer
Stage_vertex_buffer == Stage_set("vertex_buffer", Some(StageVertexBuffer))

\* RenderStage::index_buffer
Stage_index_buffer == Stage_set("index_buffer", Some(StageIndexBuffer))

\* RenderStage::bind_groups
Stage_bind_groups == Stage_set("bind_groups", Some(<< StageBindGroup >>))

\* RenderStage::viewport, scissors, blend_constant, stencil_reference
Stage_override ==
    /\ draft # None
    /\ \E o \in Overrides : Stage_set("overrides", draft[1].overrides \cup {o})

\* render_pass().render_stage(0, stage) rendered: RenderPass::render of the
\* graph holding the stage built
Stage_render ==
    /\ Alive
    /\ draft # None
    /\ LET r == RenderPass_render(stage(RenderPass_new, 0, draft[1])) IN
          /\ ret' = r.ret
          /\ lastOp' = [op |-> "stage_render", stage |-> draft[1], encoder |-> r.encoder,
                        submits |-> r.submits]
    /\ draft' = None
    /\ UNCHANGED nonStageVars

NextStage ==
    \/ Stage_new
    \/ Stage_color_attachments
    \/ Stage_entities
    \/ Stage_instances
    \/ Stage_base_vertex
    \/ Stage_model
    \/ Stage_vertex_buffer
    \/ Stage_index_buffer
    \/ Stage_bind_groups
    \/ Stage_override
    \/ Stage_render

SpecStage == Init /\ [][NextStage]_vars

Draws(encoder) == SelectSeq(encoder, LAMBDA c : c.cmd \in {"draw", "draw_indexed"})

\* The stage executed last is a Render stage bound to a Model, with the color
\* attachment, instance range and render pipeline every Render stage needs.
ModelStageRendered ==
    /\ lastOp.op = "stage_render"
    /\ lastOp.stage.model # None
    /\ lastOp.stage.color_attachments = Some([view |-> TRUE])
    /\ lastOp.stage.instances # None
    /\ lastOp.stage.pipeline = "Render"

\* the four commands the claim requires for the k-th mesh of model m
MeshCmds(m, k, instances) ==
    LET mesh == m.meshes[k] IN
    << Cmd("set_vertex_buffer", << mesh.vertex_buffer >>),
       Cmd("set_index_buffer", << mesh.index_buffer, Uint32 >>),
       Cmd("set_bind_group", << m.materials[mesh.material + 1].bind_group >>),
       Cmd("draw_indexed", << 0, mesh.num_elements, 0 >> \o instances) >>

\* C17 (as claimed): executing a Render stage bound to a Model with N meshes
\* succeeds and issues exactly N draws, all indexed; the k-th draw is
\* preceded by the bindings of the k-th mesh's vertex buffer, index buffer
\* and the bind group of the material the mesh references, and uses the
\* mesh's element count with the stage's instance range.
C17_ModelDraws ==
    ModelStageRendered =>
        LET m == lastOp.stage.model[1]
            n == Len(m.meshes)
            e == lastOp.encoder
        IN  /\ ret = Unit
            /\ \A k \in 1..n : m.meshes[k].material < Len(m.materials)
            /\ Len(Draws(e)) = n
            /\ Len(e) >= 4 * n
            /\ \A k \in 1..n :
                  SubSeq(e, Len(e) - 4 * (n - k + 1) + 1, Len(e) - 4 * (n - k))
                      = MeshCmds(m, k, lastOp.stage.instances[1])

(***************************************************************************)
(* The frame loop: Runtime::window_event runs the RenderWorker's render     *)
(* callback on every window event, matches on its result and then handles   *)
(* the event.  The callback acquires the View, hands a stage graph to       *)
(* Worker::render and presents; each `?` leaves the callback at once.  pc   *)
(* is the position inside window_event.                                     *)
(***************************************************************************)
nonFrameVars == << context, held, expected, registered, mem, pending, graphVars, mapVars >>

\* The match on the callback's result: SurfaceError Lost and Timeout
\* reconfigure the surface, OutOfMemory asks the event loop to exit, every
\* other error is logged.  The handler then goes on to the event itself.
window_event_match(res, sz, cfg) ==
    IF res.tag = "Err" /\ res.err = "SurfaceError" /\ res.kind \in {"Lost", "Timeout"}
    THEN [size |-> resize(sz, cfg).size, config |-> resize(sz, cfg).config,
          configured |-> resize(sz, cfg).configured, pc |-> "event"]
    ELSE IF res.tag = "Err" /\ res.err = "SurfaceError" /\ res.kind = "OutOfMemory"
    THEN [size |-> sz, config |-> cfg, configured |-> FALSE, pc |-> "event_exit"]
    ELSE [size |-> sz, config |-> cfg, configured |-> FALSE, pc |-> "event"]

\* The call record of a step of the callback; configured tells whether the
\* match that followed the step reconfigured the surface
FrameCall(op, submits, presents, configured) ==
    [op |-> op, viewBefore |-> view, renderedBefore |-> rendered, submits |-> submits,
     presents |-> presents, configured |-> configured]

\* let view = w.view_surface()?;
Frame_view_surface ==
    /\ pc = "idle"
    /\ nextInst < MaxViews
    /\ \E acquired \in SurfaceResults :
          LET r == view_surface(view, nextInst, acquired)
              m == window_event_match(r.ret, size, config) IN
          /\ view' = r.view
          /\ ret' = r.ret
          /\ nextInst' = IF acquired = "Ok" THEN nextInst + 1 ELSE nextInst
          /\ rendered' = IF acquired = "Ok" THEN FALSE ELSE rendered
          /\ lastOp' = FrameCall("view_surface", 0, 0, acquired # "Ok" /\ m.configured)
          /\ pc' = IF acquired = "Ok" THEN "acquired" ELSE m.pc
          /\ size' = IF acquired = "Ok" THEN size ELSE m.size
          /\ config' = IF acquired = "Ok" THEN config ELSE m.config
    /\ UNCHANGED << presented, scale_factor, nonFrameVars >>

\* let view = w.view_texture(format, path)?;
Frame_view_texture ==
    /\ pc = "idle"
    /\ nextInst < MaxViews
    /\ LET r == view_texture(view, nextInst, size) IN
          /\ view' = r.view
          /\ ret' = r.ret
          /\ nextInst' = nextInst + 1
          /\ rendered' = FALSE
          /\ lastOp' = FrameCall("view_texture", 0, 0, FALSE)
          /\ pc' = "acquired"
    /\ UNCHANGED << size, config, presented, scale_factor, nonFrameVars >>

\* w.render(r_p); without the `?`: the callback goes on to present whatever
\* render returned
Frame_render_unchecked ==
    /\ pc = "acquired"
    /\ \E rp \in RenderPasses :
          LET r == Worker_render(view, rp) IN
          /\ ret' = r.ret
          /\ rendered' = Rendered(view, r)
          /\ lastOp' = FrameCall("render", r.submits, 0, FALSE)
          /\ pc' = "rendered"
    /\ UNCHANGED << view, size, config, nextInst, presented, scale_factor, nonFrameVars >>

\* w.render(r_p)?; for the stage graph r_p the callback has assembled
Frame_render ==
    /\ pc = "acquired"
    /\ \E rp \in RenderPasses :
          LET r == Worker_render(view, rp)
              m == window_event_match(r.ret, size, config) IN
          /\ ret' = r.ret
          /\ rendered' = Rendered(view, r)
          /\ lastOp' = FrameCall("render", r.submits, 0, r.ret # Unit /\ m.configured)
          /\ pc' = IF r.ret = Unit THEN "rendered" ELSE m.pc
          /\ size' = IF r.ret = Unit THEN size ELSE m.size
          /\ config' = IF r.ret = Unit THEN config ELSE m.config
    /\ UNCHANGED << view, nextInst, presented, scale_factor, nonFrameVars >>

\* w.present()?; and the end of the callback
Frame_present ==
    /\ pc = "rendered"
    /\ \E map_result \in MapResults, saved \in SaveResults :
          LET r == present(view, size, map_result, saved)
              m == window_event_match(r.ret, size, config) IN
          /\ view' = r.view
          /\ ret' = r.ret
          /\ presented' = IF r.presents > 0
                          THEN [presented EXCEPT ![view.inst] = @ + r.presents]
                          ELSE presented
          /\ rendered' = FALSE
          /\ lastOp' = FrameCall("present", 0, r.presents, m.configured)
          /\ pc' = m.pc
          /\ size' = m.size
          /\ config' = m.config
    /\ UNCHANGED << nextInst, scale_factor, nonFrameVars >>

\* After the match: where the handler is once the event has been handled
AfterEvent == IF pc = "event_exit" THEN "exited" ELSE "idle"

\* WindowEvent::Resized
Frame_resized ==
    /\ pc \in {"event", "event_exit"}
    /\ \E new_size \in (0..MaxDim) \X (0..MaxDim) :
          LET r == resize_by_size(size, config, new_size) IN
          /\ size' = r.size
          /\ config' = r.config
          /\ ret' = Unit
          /\ lastOp' = [op |-> "resize_by_size", new_size |-> new_size, viewBefore |-> view]
    /\ pc' = AfterEvent
    /\ UNCHANGED << view, nextInst, presented, scale_factor, rendered, nonFrameVars >>

\* WindowEvent::ScaleFactorChanged
Frame_scale_factor_changed ==
    /\ pc \in {"event", "event_exit"}
    /\ \E new_scale_factor \in ScaleFactors :
          LET r == resize_by_scale(size, config, scale_factor, new_scale_factor) IN
          /\ size' = r.size
          /\ config' = r.config
          /\ scale_factor' = r.scale_factor
          /\ ret' = Unit
          /\ lastOp' = [op |-> "resize_by_scale", new_scale_factor |-> new_scale_factor,
                        viewBefore |-> view]
    /\ pc' = AfterEvent
    /\ UNCHANGED << view, nextInst, presented, rendered, nonFrameVars >>

\* WindowEvent::CloseRequested
Frame_close_requested ==
    /\ pc \in {"event", "event_exit"}
    /\ pc' = "exited"
    /\ UNCHANGED << ret, lastOp, viewVars, scale_factor, rendered, nonFrameVars >>

\* WindowEvent::RedrawRequested and the events left to the handler callbacks
Frame_other_event ==
    /\ pc \in {"event", "event_exit"}
    /\ pc' = AfterEvent
    /\ UNCHANGED << ret, lastOp, viewVars, scale_factor, rendered, nonFrameVars >>

NextFrame ==
    \/ Frame_view_surface
    \/ Frame_view_texture
    \/ Frame_render
    \/ Frame_present
    \/ Frame_resized
    \/ Frame_scale_factor_changed
    \/ Frame_close_requested
    \/ Frame_other_event

SpecFrame == Init /\ [][NextFrame]_vars

Acquisitions == {"view_surface", "view_texture"}

\* C11: across the frames of the loop, view_surface / view_texture never
\* acquires a new View while a View acquired earlier is still held
\* un-presented, whether or not acquisition or render() failed in a frame
\* before.
C11_OneLiveView ==
    (lastOp.op \in Acquisitions /\ ret.tag = "Ok") => lastOp.viewBefore = NoView

C21_ReadbackCapacity ==
    view.tag = "Texture" => view.cap = size[1] * size[2] * BytesPerPixel

(***************************************************************************)
(* The resource builders.  A builder is the set of its fields that were    *)
(* set (plus is_compute where it has that flag); build() walks its         *)
(* `ok_or(..)?` checks in source order and returns the error of the first  *)
(* field found unset.  Device calls and image decoding succeed.            *)
(***************************************************************************)
nonBuildVars ==
    << context, held, expected, registered, mem, pending, viewVars, frameVars, graphVars, mapVars >>

\* The first check << field, error >> whose field is not in set, or Unit
RECURSIVE first_unset(_, _)
first_unset(checks, set) ==
    IF checks = << >> THEN Unit
    ELSE IF Head(checks)[1] \notin set THEN Err(Head(checks)[2])
    ELSE first_unset(Tail(checks), set)

\* ShaderBuilder::build
ShaderBuilder_checks(is_compute) ==
    IF is_compute
    THEN << << "source", "EmptyShaderSource" >>,
            << "compute_entry_point", "EmptyEntryPoint" >> >>
    ELSE << << "source", "EmptyShaderSource" >>,
            << "fs_entry_point", "EmptyEntryPoint" >>,
            << "vs_entry_point", "EmptyEntryPoint" >> >>

ShaderBuilder_fields ==
    {"source", "compute_entry_point", "fs_entry_point", "vs_entry_point",
     "fs_options", "vs_options"}

\* PipelineBuilder::build; the shader handed over is a compute or a render
\* shader
PipelineBuilder_checks(is_compute) ==
    << << "layout", "EmptyLayout" >>,
       << "shader", "EmptyPipelineVertex" >>,
       << "multisample", "EmptyPipelineMultisample" >>,
       << "primitive", "EmptyPipelinePrimitive" >> >>

PipelineBuilder_fields ==
    {"layout", "shader", "multisample", "primitive", "depth_stencil"}

PipelineBuilder_build(set, is_compute, shader_is_compute) ==
    LET r == first_unset(PipelineBuilder_checks(is_compute), set) IN
    IF r # Unit THEN r
    ELSE IF is_compute /\ ~shader_is_compute THEN Err("NotComputeShader")
    ELSE IF ~is_compute /\ shader_is_compute THEN Err("NotRenderShader")
    ELSE Unit

\* BindGroupBuilder::build
BindGroupBuilder_checks ==
    << << "binding", "EmptyBinding" >>,
       << "layout", "EmptyLayout" >>,
       << "entries", "EmptyEntries" >> >>

\* BindGroupLayoutBuilder::build
BindGroupLayoutBuilder_checks == << << "entries", "EmptyEntries" >> >>

\* BindGroupLayoutEntryBuilder::build
BindGroupLayoutEntryBuilder_checks ==
    << << "binding", "EmptyBinding" >>, << "ty", "EmptyBindType" >> >>

\* MaterialBuilder::build: diffuse and its texture_data, the layout, and the
\* texture_data of each optional texture that was set
MaterialBuilder_fields ==
    {"diffuse", "diffuse.texture_data", "layout", "normal", "normal.texture_data",
     "occlusion", "occlusion.texture_data"}

MaterialBuilder_build(set) ==
    IF "diffuse" \notin set THEN Err("EmptyDiffuseTexture")
    ELSE IF "diffuse.texture_data" \notin set THEN Err("EmptyDiffuseTexture")
    ELSE IF "layout" \notin set THEN Err("EmptyLayout")
    ELSE IF "normal" \in set /\ "normal.texture_data" \notin set
    THEN Err("EmptyNormalTexture")
    ELSE IF "occlusion" \in set /\ "occlusion.texture_data" \notin set
    THEN Err("EmptyNormalTexture")
    ELSE Unit

MaterialBuilder_checks ==
    << << "diffuse", "EmptyDiffuseTexture" >>,
       << "diffuse.texture_data", "EmptyDiffuseTexture" >>,
       << "layout", "EmptyLayout" >> >>

\* MeshBuilder::build
MeshBuilder_checks ==
    << << "index_buffer_data", "EmptyIndexData" >>,
       << "vertex_buffer_data", "EmptyData" >> >>

MeshBuilder_fields ==
    {"index_buffer_data", "vertex_buffer_data", "num_elements", "material"}

\* ModelBuilder::build, up to the loading of the file
ModelBuilder_checks ==
    << << "diffuse", "EmptyDiffuseTexture" >>, << "file", "EmptyModelFile" >> >>

\* RenderTextureBuilder::build: the size is asked for only when neither a
\* texture descriptor nor image bytes were given
RenderTextureBuilder_fields == {"texture_desc", "data", "texture_size"}

RenderTextureBuilder_build(set) ==
    IF "texture_desc" \in set THEN Unit
    ELSE IF "data" \in set THEN Unit
    ELSE IF "texture_size" \notin set THEN Err("EmptyTextureSize")
    ELSE Unit

\* DepthTextureBuilder::build
DepthTextureBuilder_checks == << << "texture_size", "EmptyTextureSize" >> >>

\* UniformsBuilder::build and StoragesBuilder::build
UniformsBuilder_checks == << << "entries", "EmptyEntries" >> >>

StoragesBuilder_checks == << << "entries", "EmptyEntries" >> >>

BuilderNames ==
    {"Shader", "Pipeline", "BindGroup", "BindGroupLayout", "BindGroupLayoutEntry",
     "Material", "Mesh", "Model", "RenderTexture", "DepthTexture", "Uniforms",
     "Storages"}

\* The fields build() insists on, in the order it checks them
Checks(builder, is_compute) ==
    CASE builder = "Shader" -> ShaderBuilder_checks(is_compute)
      [] builder = "Pipeline" -> PipelineBuilder_checks(is_compute)
      [] builder = "BindGroup" -> BindGroupBuilder_checks
      [] builder = "BindGroupLayout" -> BindGroupLayoutBuilder_checks
      [] builder = "BindGroupLayoutEntry" -> BindGroupLayoutEntryBuilder_checks
      [] builder = "Material" -> MaterialBuilder_checks
      [] builder = "Mesh" -> MeshBuilder_checks
      [] builder = "Model" -> ModelBuilder_checks
      [] builder = "RenderTexture" -> << << "texture_size", "EmptyTextureSize" >> >>
      [] builder = "DepthTexture" -> DepthTextureBuilder_checks
      [] builder = "Uniforms" -> UniformsBuilder_checks
      [] builder = "Storages" -> StoragesBuilder_checks

Required(builder, is_compute) ==
    { Checks(builder, is_compute)[i][1] : i \in 1..Len(Checks(builder, is_compute)) }

\* Every field a builder has a setter for, as far as build() looks at it
Fields(builder) ==
    CASE builder = "Shader" -> ShaderBuilder_fields
      [] builder = "Pipeline" -> PipelineBuilder_fields
      [] builder = "Material" -> MaterialBuilder_fields
      [] builder = "Mesh" -> MeshBuilder_fields
      [] builder = "RenderTexture" -> RenderTextureBuilder_fields
      [] OTHER -> Required(builder, FALSE)

\* build() of the named builder
Builder_build(builder, set, is_compute, shader_is_compute) ==
    CASE builder = "Pipeline" -> PipelineBuilder_build(set, is_compute, shader_is_compute)
      [] builder = "Material" -> MaterialBuilder_build(set)
      [] builder = "RenderTexture" -> RenderTextureBuilder_build(set)
      [] OTHER -> first_unset(Checks(builder, is_compute), set)

\* The builders with an is_compute flag
HasIsCompute == {"Shader", "Pipeline"}

\* A builder is filled through its setters and built.
Build ==
    /\ \E builder \in BuilderNames, set \in SUBSET MaterialBuilder_fields
                                            \cup SUBSET ShaderBuilder_fields
                                            \cup SUBSET PipelineBuilder_fields
                                            \cup SUBSET MeshBuilder_fields
                                            \cup SUBSET RenderTextureBuilder_fields
                                            \cup SUBSET {"binding", "layout", "entries", "ty",
                                                         "diffuse", "file", "texture_size"},
          is_compute \in BOOLEAN, shader_is_compute \in BOOLEAN :
          /\ set \subseteq Fields(builder)
          /\ builder \notin HasIsCompute => ~is_compute
          /\ builder # "Pipeline" => ~shader_is_compute
          /\ ret' = Builder_build(builder, set, is_compute, shader_is_compute)
          /\ lastOp' = [op |-> "build", builder |-> builder, set |-> set,
                        is_compute |-> is_compute,
                        shader_is_compute |-> shader_is_compute]
    /\ UNCHANGED nonBuildVars

NextBuild == Build

SpecBuild == Init /\ [][NextBuild]_vars

\* C22: build() with a required field unset returns an error, and two
\* different required fields of one builder, each left unset alone, never
\* give the same error variant.
C22_DistinctFieldErrors ==
    lastOp.op = "build" =>
        LET req == Required(lastOp.builder, lastOp.is_compute)
            all == Fields(lastOp.builder) IN
        /\ (\E f \in req : f \notin lastOp.set) => ret.tag = "Err"
        /\ \A f \in req, g \in req :
              (f # g /\ lastOp.set = all \ {f}) =>
                 Builder_build(lastOp.builder, all \ {g}, lastOp.is_compute,
                               lastOp.shader_is_compute).err # ret.err

\* A step of the callback that ended the frame with an error
FrameFailed == pc \in {"idle", "acquired", "rendered"} /\ pc' \notin {"acquired", "rendered"}
                  /\ ret'.tag = "Err"

SurfaceErrorOf(res, kinds) ==
    res.tag = "Err" /\ res.err = "SurfaceError" /\ res.kind \in kinds

\* C23: a frame that fails with SurfaceError Lost or Timeout is followed by
\* a reconfiguration of the surface and the loop goes on; OutOfMemory makes
\* the loop exit; every other error leaves size and surface alone and the
\* loop goes on.  Only the fatal error heads for the exit, and after it the
\* loop does exit.
C23_FrameErrors ==
    [][/\ FrameFailed =>
            IF SurfaceErrorOf(ret', {"Lost", "Timeout"})
            THEN lastOp'.configured /\ pc' = "event"
            ELSE IF SurfaceErrorOf(ret', {"OutOfMemory"})
            THEN pc' = "event_exit"
            ELSE pc' = "event" /\ ~lastOp'.configured /\ size' = size /\ config' = config
       /\ pc' = "event_exit" => SurfaceErrorOf(ret', {"OutOfMemory"})
       /\ pc = "event_exit" => pc' = "exited"]_vars

\* The place of a command in the order the stage is said to record: the
\* pipeline, the stage's own vertex / index buffers, its bind groups, the
\* overrides, and then the draws with the per-mesh bindings of a Model
StageBindings == {StageVertexBuffer, StageIndexBuffer, StageBindGroup}

Rank(c) ==
    IF c.cmd = "begin_render_pass" THEN 0
    ELSE IF c.cmd = "set_pipeline" THEN 1
    ELSE IF c.cmd \in {"set_vertex_buffer", "set_index_buffer"}
            /\ c.args[1] \in StageBindings THEN 2
    ELSE IF c.cmd = "set_bind_group" /\ c.args[1] \in StageBindings THEN 3
    ELSE IF c.cmd \in {"set_viewport", "set_scissor_rect", "set_blend_constant",
                       "set_stencil_reference"} THEN 4
    ELSE 5

RenderStageRendered == lastOp.op = "stage_render" /\ lastOp.stage.kind = "Render"

\* C24: the commands of a Render stage come in the order pipeline, explicit
\* vertex / index buffers, bind groups, overrides, draws; and a stage whose
\* pipeline is not a render pipeline records no buffer or bind-group
\* binding.
C24_CommandOrder ==
    RenderStageRendered =>
        LET e == lastOp.encoder IN
        /\ \A i \in 1..Len(e), j \in 1..Len(e) : i < j => Rank(e[i]) <= Rank(e[j])
        /\ lastOp.stage.pipeline # "Render" =>
              \A i \in 1..Len(e) : Rank(e[i]) \notin {2, 3}

\* C25: a Render stage with a bound Model (whose meshes reference materials
\* the model holds) and an instance range but no entity range executes
\* successfully and draws the model's meshes; without a Model the missing
\* entity range is an error.
C25_EntitiesOnlyWithoutModel ==
    /\ (/\ ModelStageRendered
        /\ lastOp.stage.entities = None
        /\ \A k \in 1..Len(lastOp.stage.model[1].meshes) :
              lastOp.stage.model[1].meshes[k].material
                  < Len(lastOp.stage.model[1].materials))
         => /\ ret = Unit
            /\ Len(Draws(lastOp.encoder)) = Len(lastOp.stage.model[1].meshes)
    /\ (/\ RenderStageRendered
        /\ lastOp.stage.model = None
        /\ lastOp.stage.color_attachments = Some([view |-> TRUE])
        /\ lastOp.stage.entities = None)
         => ret = ErrAt("EmptyEntities", 0)

(***************************************************************************)
(* Buffer::read_buffer_async, step by step.  The caller creates a          *)
(* bounded(1) channel, hands the Sender to the map_async callback, polls   *)
(* the device and awaits the Receiver.  The device calls the callback once *)
(* with the outcome of the mapping, or drops it uncalled; either way the   *)
(* Sender is gone afterwards.  Nothing else runs on the Worker while the    *)
(* read is in progress.                                                    *)
(***************************************************************************)
nonMapVars == << context, held, expected, registered, pending, viewVars, frameVars, graphVars >>

ChannelBound == 1

\* let (tx, rx) = bounded(1); buffer_slice.map_async(MapMode::Read, move |r| ..)
Map_async ==
    /\ Alive
    /\ reader.pc = "idle"
    /\ \E id \in DOMAIN context.maps[BufferKind] :
          LET buffer == context.maps[BufferKind][id] IN
          /\ chan' = << >>
          /\ tx' = "callback"
          /\ reader' = [pc |-> "mapped", buffer |-> buffer, id |-> id]
          /\ lastOp' = [op |-> "map_async", id |-> id, handle |-> buffer.data]
    /\ UNCHANGED << ret, mem, nonMapVars >>

\* The device runs the callback with the outcome r of the mapping:
\* tx.send(r) waits for a free slot; the Sender is dropped with the closure
Callback ==
    /\ tx = "callback"
    /\ Len(chan) < ChannelBound
    /\ \E r \in {"Ok", "BufferAsyncError"} : chan' = Append(chan, r)
    /\ tx' = "dropped"
    /\ UNCHANGED << ret, lastOp, mem, reader, nonMapVars >>

\* The device drops the callback without calling it
Callback_dropped ==
    /\ tx = "callback"
    /\ tx' = "dropped"
    /\ UNCHANGED << ret, lastOp, mem, chan, reader, nonMapVars >>

\* device.poll(wgpu::Maintain::Wait)
Poll ==
    /\ reader.pc = "mapped"
    /\ reader' = [reader EXCEPT !.pc = "polled"]
    /\ UNCHANGED << ret, lastOp, mem, chan, tx, nonMapVars >>

\* What the await hands back: the message, or "Dropped" for a disconnected
\* channel
Received == IF chan # << >> THEN Head(chan) ELSE "Dropped"

\* rx.recv_async() that does not notice the Sender being dropped
Recv_async_connected ==
    /\ reader.pc = "polled"
    /\ chan # << >>
    /\ ret' = read_buffer_async(mem, reader.buffer, Received)
    /\ lastOp' = [op |-> "read_buffer_async", id |-> reader.id,
                  handle |-> reader.buffer.data, signal |-> Received]
    /\ chan' = << >>
    /\ tx' = "none"
    /\ reader' = NoReader
    /\ UNCHANGED << mem, nonMapVars >>

\* rx.recv_async().await??; Ok(self.read_buffer()): resumes once a message
\* is in the channel or the Sender is gone
Recv_async ==
    /\ reader.pc = "polled"
    /\ chan # << >> \/ tx = "dropped"
    /\ ret' = read_buffer_async(mem, reader.buffer, Received)
    /\ lastOp' = [op |-> "read_buffer_async", id |-> reader.id,
                  handle |-> reader.buffer.data, signal |-> Received]
    /\ chan' = << >>
    /\ tx' = "none"
    /\ reader' = NoReader
    /\ UNCHANGED << mem, nonMapVars >>

\* Between two reads the caller builds and writes buffers.
Map_build == reader.pc = "idle" /\ BuildBuffer

Map_update == reader.pc = "idle" /\ UpdateBufferDirect

NextMap ==
    \/ Map_build
    \/ Map_update
    \/ Map_async
    \/ Callback
    \/ Callback_dropped
    \/ Poll
    \/ Recv_async

\* The caller keeps running, and the device gets to every callback it was
\* handed: it calls it or drops it.
SpecMap ==
    /\ Init
    /\ [][NextMap]_vars
    /\ WF_vars(Poll)
    /\ WF_vars(Recv_async)
    /\ WF_vars(Callback \/ Callback_dropped)

\* C26: every read_buffer_async completes: the channel never holds more
\* than its one slot and the callback never finds it full, so its send does
\* not block; and a read in progress leads to its end, where it returns the
\* buffer's bytes if the callback signalled success and one error if it
\* signalled failure or was dropped.
C26_ReadCompletes ==
    /\ [](Len(chan) <= ChannelBound /\ (tx = "callback" => chan = << >>))
    /\ [](lastOp.op = "read_buffer_async" =>
            IF lastOp.signal = "Ok" THEN ret = Ok(mem[lastOp.handle])
            ELSE IF lastOp.signal = "BufferAsyncError" THEN ret = Err("BufferAsyncError")
            ELSE ret = Err("FlumeRecvError"))
    /\ (reader.pc # "idle") ~> (reader.pc = "idle")

\* C26 witness: a read whose callback was dropped has ended with its error,
\* on a buffer that holds bytes.
C26_Witness ==
    /\ lastOp.op = "read_buffer_async"
    /\ lastOp.signal = "Dropped"
    /\ ret = Err("FlumeRecvError")
    /\ reader.pc = "idle"
    /\ Len(mem[lastOp.handle]) > 0

(***************************************************************************)
(* ModelBuilder::build on an .obj file.  The file lists its materials (for *)
(* each, whether its diffuse texture was loaded) and its models (each with *)
(* the index of its material in that list, or none).                       *)
(***************************************************************************)
ObjFiles ==
    UNION { { [materials |-> mats, models |-> mods] :
                mats \in [1..n -> BOOLEAN],
                mods \in UNION { [1..k -> {None} \cup { Some(i) : i \in 0..(n - 1) }] :
                                   k \in 0..MaxMeshes } } :
            n \in 0..MaxMaterials }

\* the materials kept of the file's materials i..: a material whose diffuse
\* texture is missing fails to build, is logged and left out
RECURSIVE build_materials(_, _)
build_materials(mats, i) ==
    IF i > Len(mats) THEN << >>
    ELSE (IF mats[i] THEN << [bind_group |-> MaterialBindGroup(i - 1)] >> ELSE << >>)
         \o build_materials(mats, i + 1)

\* material_id.unwrap_or_default()
unwrap_or_default(o) == IF o = None THEN 0 ELSE o[1]

\* the Model built from the file
ModelBuilder_build(file) ==
    [meshes |-> [k \in DOMAIN file.models |-> Mesh(k, unwrap_or_default(file.models[k]))],
     materials |-> build_materials(file.materials, 1)]

\* RenderStage::model with a Model built from a file
Stage_model_built ==
    \E file \in ObjFiles : Stage_set("model", Some(ModelBuilder_build(file)))

NextModel ==
    \/ Stage_new
    \/ Stage_color_attachments
    \/ Stage_entities
    \/ Stage_instances
    \/ Stage_model_built
    \/ Stage_render

SpecModel == Init /\ [][NextModel]_vars

\* C27: a Render stage bound to a Model that ModelBuilder::build produced
\* never panics on the material lookup: every mesh's material index is below
\* the number of materials the model kept.
C27_MaterialIndexInRange ==
    (lastOp.op = "stage_render" /\ lastOp.stage.model # None) =>
        /\ ret.tag # "Panic"
        /\ \A k \in 1..Len(lastOp.stage.model[1].meshes) :
              lastOp.stage.model[1].meshes[k].material
                  < Len(lastOp.stage.model[1].materials)

(***************************************************************************)
(* Triangle::point_inside.  Coordinates are small integers, on which the   *)
(* f32 arithmetic of the code is exact.                                    *)
(***************************************************************************)
Vector3_new(x, y, z) == [x |-> x, y |-> y, z |-> z]

\* From<[f32; 3]> for Vector3
Vector3_from(a) == Vector3_new(a[1], a[2], a[3])

Vector3_sub(a, b) == Vector3_new(a.x - b.x, a.y - b.y, a.z - b.z)

Vector3_cross(a, b) ==
    Vector3_new(a.y * b.z - a.z * b.y, a.z * b.x - a.x * b.z, a.x * b.y - a.y * b.x)

Vector3_dot(a, b) == a.x * b.x + a.y * b.y + a.z * b.z

Coords == 0..MaxCoord

Heights == 0..MaxHeight

Arrays == { << x, y, z >> : x \in Coords, y \in Coords, z \in Heights }

\* Triangle::new from three values that convert into Vector3: arrays are
\* converted, Vector3 values are taken as they are
Triangle_new(points, form) ==
    [points |-> IF form = "array"
                THEN [i \in 1..3 |-> Vector3_from(points[i])]
                ELSE points]

\* Triangle::point_inside
point_inside(t, point) ==
    LET a == Vector3_sub(t.points[1], point)
        b == Vector3_sub(t.points[2], point)
        c == Vector3_sub(t.points[3], point)
        u == Vector3_cross(b, a)
        v == Vector3_cross(c, b)
        w == Vector3_cross(a, c)
    IN  Vector3_dot(u, v) > 0 /\ Vector3_dot(u, w) > 0

nonTriangleVars ==
    << context, held, expected, registered, mem, pending, viewVars, frameVars, graphVars, mapVars >>

\* A triangle is made of three points, in either form, and asked about a
\* fourth; a run asks one question.
Point_inside ==
    /\ lastOp = NoOp
    /\ \E p1 \in Arrays, p2 \in Arrays, p3 \in Arrays, q \in Arrays,
          form \in {"array", "Vector3"} :
          LET arrays == << p1, p2, p3 >>
              points == IF form = "array" THEN arrays
                        ELSE [i \in 1..3 |-> Vector3_from(arrays[i])]
              t == Triangle_new(points, form)
          IN  /\ ret' = Ok(point_inside(t, Vector3_from(q)))
              /\ lastOp' = [op |-> "point_inside", points |-> arrays, point |-> q,
                            form |-> form]
    /\ UNCHANGED nonTriangleVars

NextTriangle == Point_inside

SpecTriangle == Init /\ [][NextTriangle]_vars

\* Geometry of the question, on the three corners A, B, C and the point P:
\* the normal of the triangle, and on which side of each edge P lies
Normal(A, B, C) == Vector3_cross(Vector3_sub(B, A), Vector3_sub(C, A))

Side(A, B, C, P) ==
    Vector3_dot(Vector3_cross(Vector3_sub(B, A), Vector3_sub(P, A)), Normal(A, B, C))

Spanned(A, B, C) == Normal(A, B, C) # Vector3_new(0, 0, 0)

InPlane(A, B, C, P) == Vector3_dot(Vector3_sub(P, A), Normal(A, B, C)) = 0

StrictlyInside(A, B, C, P) ==
    /\ Spanned(A, B, C)
    /\ InPlane(A, B, C, P)
    /\ Side(A, B, C, P) > 0 /\ Side(B, C, A, P) > 0 /\ Side(C, A, B, P) > 0

Outside(A, B, C, P) ==
    /\ Spanned(A, B, C)
    /\ \/ ~InPlane(A, B, C, P)
       \/ Side(A, B, C, P) < 0 \/ Side(B, C, A, P) < 0 \/ Side(C, A, B, P) < 0

\* C28: point_inside is true for a point strictly inside the triangle and
\* false for a point outside it, whatever the order of the corners and the
\* form the triangle was made from.
C28_PointInside ==
    lastOp.op = "point_inside" =>
        LET A == Vector3_from(lastOp.points[1])
            B == Vector3_from(lastOp.points[2])
            C == Vector3_from(lastOp.points[3])
            P == Vector3_from(lastOp.point)
        IN  /\ StrictlyInside(A, B, C, P) => ret = Ok(TRUE)
            /\ Outside(A, B, C, P) => ret = Ok(FALSE)

(***************************************************************************)
(* The global id set.                                                      *)
(***************************************************************************)
\* C29: the arena's id set always contains every id registered under any
\* kind and never shrinks: take_<kind>(id) removes the resource and leaves
\* ids alone, so generate_unique_id never returns an id that was ever
\* registered in this arena.
C29_IdSetNeverShrinks ==
    [][ /\ context.ids \subseteq context'.ids
        /\ \A k \in Kinds : DOMAIN context'.maps[k] \subseteq context'.ids
        /\ lastOp'.op = "take" =>
              /\ lastOp'.id \notin DOMAIN context'.maps[lastOp'.kind]
              /\ context'.ids = context.ids
        /\ lastOp'.op = "create_id" => ret'.val \notin registered ]_vars

C29_Witness ==
    /\ lastOp.op = "create_id" /\ ret.drawn > 1
    /\ ret.val \notin registered
    /\ \E id \in registered : \A k \in Kinds : id \notin DOMAIN context.maps[k]

(***************************************************************************)
(* The capacity check of update_buffer over the whole offset range.        *)
(***************************************************************************)
\* C30: the capacity check of update_buffer is exact for every offset of the
\* u64 range: offset + byte length is taken without wrap-around, so a write
\* whose true end lies beyond the capacity returns WrongBufferSize, changes
\* no byte and never reaches the device write.
C30_ExactCapacityCheck ==
    [][ (/\ lastOp'.op = "update_buffer" /\ lastOp'.hit
         /\ lastOp'.offset + lastOp'.len > Len(mem[lastOp'.handle]))
            => (ret' = Err("WrongBufferSize") /\ mem' = mem) ]_vars

====
